---- MODULE Spec2Model ----
(***************************************************************************)
(* Model of woostream: main() fetches a REST snapshot, then consumes the   *)
(* merge of two private_stream sessions ('position', 'executionreport').   *)
(* Each session is the async generator of src/woostream/__main__.py:90-126 *)
(* running on one asyncio event loop.  Code between two awaits is atomic.  *)
(***************************************************************************)
EXTENDS Integers, Sequences, FiniteSets, TLC

\* ---- bounds of the model -------------------------------------------------
MaxEvents == 4      \* connection attempts and inbound frames, all sessions together
MaxParams == 2      \* keyword arguments in one call of signature

\* ---- the two sessions merged in main -------------------------------------
Topics == {"position", "executionreport"}

\* ---- inbound frames --------------------------------------------------------
\* A raw frame is abstracted by what json.loads and the dispatch look at.
\*   bad      : not valid JSON
\*   nondict  : valid JSON that is not an object (e.g. [] or 3)
\*   ack      : object without 'data', event is not 'ping' (auth/subscribe ack)
\*   ping     : object {"event":"ping"} without 'data'
\*   pingdata : object with event 'ping' and a 'data' field
\*   data     : object with a 'data' field, no event
\* What the 'data' field holds is first looked at by main (Statuses).
Kinds == {"bad", "nondict", "ack", "ping", "pingdata", "data"}

IsJson(k) == k # "bad"
IsObject(k) == k \notin {"bad", "nondict"}
IsPing(k) == k \in {"ping", "pingdata"}
HasData(k) == k \in {"pingdata", "data"}

\* ---- REST responses ---------------------------------------------------------
\*   ok        : 2xx, JSON body           errjson : non-2xx, JSON body
\*   oktext    : 2xx, body not JSON       errtext : non-2xx, body not JSON
\*   transport : session.get itself raises
Responses == {"ok", "errjson", "oktext", "errtext", "transport"}

\* What the request coroutine gives its caller: the content, None, or an
\* exception.  When response.json() raises, 'content' is unbound and the
\* handler's logging.error(content or exception) raises UnboundLocalError.
RequestResult(resp) ==
    CASE resp = "ok" -> "content"
      [] resp = "errjson" -> "none"
      [] resp \in {"oktext", "errtext"} -> "raise"
      [] resp = "transport" -> "raise"

\* ---- signature(timestamp, api_key_secret, **kwargs) -------------------------
\* A str is a sequence of characters.  Keyword names, as Python compares
\* them: character by character, a proper prefix first.
Keys == {<<>>, <<"a">>, <<"a", "b">>, <<"b">>}
Values == {7, 12}
Timestamps == {<<"5">>, <<"1", "7">>}
Secrets == {"k1", "k2"}

CharRank(c) == CASE c = "a" -> 1 [] c = "b" -> 2

RECURSIVE KeyLess(_, _)
KeyLess(k1, k2) ==
    IF k2 = <<>> THEN FALSE
    ELSE IF k1 = <<>> THEN TRUE
    ELSE IF Head(k1) # Head(k2) THEN CharRank(Head(k1)) < CharRank(Head(k2))
    ELSE KeyLess(Tail(k1), Tail(k2))

\* f"{value}" of a non-negative int: its decimal digits.
Digit(d) == <<"0", "1", "2", "3", "4", "5", "6", "7", "8", "9">>[d + 1]

RECURSIVE Str(_)
Str(n) == IF n < 10 THEN <<Digit(n)>> ELSE Str(n \div 10) \o <<Digit(n % 10)>>

RECURSIVE Insert(_, _)
Insert(item, sorted) ==
    IF sorted = <<>> THEN <<item>>
    ELSE IF KeyLess(item[1], Head(sorted)[1]) THEN <<item>> \o sorted
    ELSE <<Head(sorted)>> \o Insert(item, Tail(sorted))

RECURSIVE Sorted(_)

\* Mutant: the items are taken in the order the caller gave them.
SortedAsGiven(items) == items

\* args = {key: value for key, value in sorted(kwargs.items())}: the items
\* in ascending order of their keys (the keys of a dict are distinct).
Sorted(items) ==
    IF items = <<>> THEN <<>>
    ELSE Insert(Head(items), Sorted(Tail(items)))

\* The loop over args.items():
\*     if msg: msg += "&"
\*     msg += f"{key}={value}"
RECURSIVE MsgLoop(_, _)
MsgLoop(args, msg) ==
    IF args = <<>> THEN msg
    ELSE LET sep == IF msg # <<>> THEN msg \o <<"&">> ELSE msg
             item == Head(args)
         IN MsgLoop(Tail(args), sep \o item[1] \o <<"=">> \o Str(item[2]))

\* msg += f"|{timestamp}"
Message(timestamp, kwargs) == MsgLoop(Sorted(kwargs), <<>>) \o <<"|">> \o timestamp

\* hmac.new(key, msg=msg, digestmod=hashlib.sha256).hexdigest().upper(): the
\* digest is kept as the pair it is computed from, HMAC-SHA256 being taken
\* to give different digests for different (key, message) pairs.
signature(timestamp, api_key_secret, kwargs) ==
    [digestmod |-> "sha256", key |-> api_key_secret,
     msg |-> Message(timestamp, kwargs), form |-> "HEX-UPPER"]

VARIABLES
    mainpc,      \* position of main()
    tokens,      \* result of public_request('/v1/public/info')
    positions,   \* result of private_request('/v1/positions')
    balances,    \* result of private_request('/v1/client/holding')
    holdings,    \* does balances['holding'] have an entry to render
    btasks,      \* broadcast tasks scheduled with ensure_future, FIFO
    out,         \* messages printed by broadcast, in order
    pc,          \* position of each session generator
    attempts,    \* connection attempts made by each session
    connection,  \* the generator's local 'connection' (0: unbound)
    alive,       \* is the object bound to 'connection' open
    tag,         \* the generator's local 'tag'
    inbox,       \* numbers of the frames received on the connection, not yet read
    lastRead,    \* the frame the session read last (<<>>: none yet)
    nframes,     \* frames put on the wire so far, per session
    sent,        \* frames written to the object bound to 'connection'
    pingTasks,   \* ping() tasks scheduled and not yet started, per session
    replies,     \* outcome of the last ping() task that ran (<<>>: none yet)
    faults,      \* how the last connection the session left ended (<<>>: none yet)
    yielded,     \* items the session generator has yielded
    thrownAt,    \* where the generator was when cancellation was thrown into it
    slot,        \* item held by the merge for each source (<<>>: none)
    consumed,    \* items handed to the body of main's async for, by topic
    sigpc,       \* a call of signature on its own: "unused", "called", "returned"
    sigTimestamp,\* its argument timestamp
    sigSecret,   \* its argument api_key_secret
    sigKwargs,   \* its keyword arguments, (name, value) in the order given
    sigResult    \* what it returned (<<>>: nothing yet)

mainVars == <<mainpc, tokens, positions, balances, holdings, btasks, out>>
sessVars == <<pc, attempts, connection, alive, tag, inbox, lastRead, nframes, sent,
              pingTasks, replies, faults, yielded, thrownAt>>
mergeVars == <<slot, consumed>>
sigVars == <<sigpc, sigTimestamp, sigSecret, sigKwargs, sigResult>>
vars == <<mainVars, sessVars, mergeVars, sigVars>>

Started ==
    /\ mainpc = "info"
    /\ tokens = "pending"
    /\ positions = "pending"
    /\ balances = "pending"
    /\ holdings = FALSE
    /\ btasks = <<>>
    /\ out = <<>>
    /\ pc = [s \in Topics |-> "idle"]
    /\ attempts = [s \in Topics |-> 0]
    /\ connection = [s \in Topics |-> 0]
    /\ alive = [s \in Topics |-> FALSE]
    /\ tag = [s \in Topics |-> 0]
    /\ inbox = [s \in Topics |-> <<>>]
    /\ lastRead = [s \in Topics |-> <<>>]
    /\ nframes = [s \in Topics |-> 0]
    /\ sent = [s \in Topics |-> <<>>]
    /\ pingTasks = [s \in Topics |-> <<>>]
    /\ replies = [s \in Topics |-> <<>>]
    /\ faults = [s \in Topics |-> <<>>]
    /\ yielded = [s \in Topics |-> <<>>]
    /\ thrownAt = [s \in Topics |-> "none"]
    /\ slot = [s \in Topics |-> <<>>]
    /\ consumed = [s \in Topics |-> <<>>]

Init ==
    /\ Started
    /\ sigpc = "unused"
    /\ sigTimestamp = <<>>
    /\ sigSecret = ""
    /\ sigKwargs = <<>>
    /\ sigResult = <<>>

\* Mutant: the ping() tasks are not ordered with the rest, a task can take its
\* first step after the session has gone through a reconnect.
NoReadyTasksButPings == btasks = <<>>

\* A task scheduled with ensure_future takes its first step before the loop
\* runs anything that became runnable after it: only the coroutine that
\* scheduled it can still run ahead of it, and only until it suspends.
NoReadyTasks == btasks = <<>> /\ \A t \in Topics : pingTasks[t] = <<>>

\* ---- main(): the startup snapshot ----------------------------------------
\* tokens = await public_request(network, '/v1/public/info'): the request is
\* sent, and only its completion lets main go on to the gather.
InfoSend ==
    /\ mainpc = "info"
    /\ tokens = "pending"
    /\ tokens' = "inflight"
    /\ UNCHANGED <<mainpc, positions, balances, holdings, btasks, out>>
    /\ UNCHANGED <<sessVars, mergeVars>>
    /\ UNCHANGED sigVars

InfoDone ==
    /\ mainpc = "info"
    /\ tokens = "inflight"
    /\ \E resp \in Responses :
        /\ tokens' = RequestResult(resp)
        /\ mainpc' = IF RequestResult(resp) = "raise" THEN "crashed" ELSE "gather"
    /\ UNCHANGED <<positions, balances, holdings, btasks, out>>
    /\ UNCHANGED <<sessVars, mergeVars>>
    /\ UNCHANGED sigVars

\* asyncio.gather starts both private_request coroutines; each sends its GET
\* without waiting for the other.
PositionsSend ==
    /\ mainpc = "gather"
    /\ positions = "pending"
    /\ positions' = "inflight"
    /\ UNCHANGED <<mainpc, tokens, balances, holdings, btasks, out>>
    /\ UNCHANGED <<sessVars, mergeVars>>
    /\ UNCHANGED sigVars

HoldingSend ==
    /\ mainpc = "gather"
    /\ balances = "pending"
    /\ balances' = "inflight"
    /\ UNCHANGED <<mainpc, tokens, positions, holdings, btasks, out>>
    /\ UNCHANGED <<sessVars, mergeVars>>
    /\ UNCHANGED sigVars

\* Mutant: main goes on as soon as one of the two calls is done.
GatherNextFirstDone(p, b) ==
    IF p = "raise" \/ b = "raise" THEN "crashed"
    ELSE IF p \in {"content", "none"} \/ b \in {"content", "none"} THEN "render"
    ELSE "gather"

\* gather hands the first exception of a child straight to main, and returns
\* the two results once both children are done.
GatherNext(p, b) ==
    IF p = "raise" \/ b = "raise" THEN "crashed"
    ELSE IF p \in {"content", "none"} /\ b \in {"content", "none"} THEN "render"
    ELSE "gather"

PositionsDone ==
    /\ mainpc = "gather"
    /\ positions = "inflight"
    /\ \E resp \in Responses :
        /\ positions' = RequestResult(resp)
        /\ mainpc' = GatherNext(RequestResult(resp), balances)
    /\ UNCHANGED <<tokens, balances, holdings, btasks, out>>
    /\ UNCHANGED <<sessVars, mergeVars>>
    /\ UNCHANGED sigVars

HoldingDone ==
    /\ mainpc = "gather"
    /\ balances = "inflight"
    /\ \E resp \in Responses :
        /\ balances' = RequestResult(resp)
        /\ holdings' \in (IF RequestResult(resp) = "content" THEN BOOLEAN ELSE {FALSE})
        /\ mainpc' = GatherNext(positions, RequestResult(resp))
    /\ UNCHANGED <<tokens, positions, btasks, out>>
    /\ UNCHANGED <<sessVars, mergeVars>>
    /\ UNCHANGED sigVars

\* The text of the snapshot notification is built in main itself, before
\* ensure_future: positions.get(...) and balances.get(...) raise
\* AttributeError on None, tokens['rows'] raises TypeError on None (it is
\* evaluated once per entry of balances['holding']).
RenderRaises(tok, pos, bal, hold) ==
    \/ pos = "none"
    \/ bal = "none"
    \/ (hold /\ tok = "none")

\* On success the broadcast task is scheduled and main enters
\* 'async for topic, message in streamer': the merge starts both sources.
\* The three results are not read again after this statement.
Render ==
    /\ mainpc = "render"
    /\ IF RenderRaises(tokens, positions, balances, holdings)
       THEN /\ mainpc' = "crashed"
            /\ UNCHANGED <<tokens, positions, balances, holdings, btasks, pc>>
       ELSE /\ mainpc' = "stream"
            /\ tokens' = "used"
            /\ positions' = "used"
            /\ balances' = "used"
            /\ holdings' = FALSE
            /\ btasks' = Append(btasks, [kind |-> "snapshot", frame |-> 0])
            /\ pc' = [s \in Topics |-> "connecting"]
    /\ UNCHANGED out
    /\ UNCHANGED <<attempts, connection, alive, tag, inbox, lastRead, nframes, sent,
                   pingTasks, replies, faults, yielded, thrownAt>>
    /\ UNCHANGED mergeVars
    /\ UNCHANGED sigVars

\* broadcast(message): print(message) is its first statement.
BroadcastRun ==
    /\ btasks # <<>>
    /\ out' = Append(out, Head(btasks))
    /\ btasks' = Tail(btasks)
    /\ UNCHANGED <<mainpc, tokens, positions, balances, holdings>>
    /\ UNCHANGED <<sessVars, mergeVars>>
    /\ UNCHANGED sigVars

\* ---- private_stream(topic): one session ----------------------------------
SetAt(f, s, v) == [f EXCEPT ![s] = v]

TotalAttempts == attempts["position"] + attempts["executionreport"]

TotalFrames == nframes["position"] + nframes["executionreport"]

\* The exchange and the network have events left to produce.
Budget == TotalAttempts + TotalFrames < MaxEvents

\* Mutant: the reply is awaited where it is scheduled ('await ping()'), the
\* session reads its next frame only after the reply has been sent.
CanRunAfterReply(s) == btasks = <<>> /\ \A t \in Topics : pingTasks[t] = <<>>

\* The session may take a step: no task scheduled before it is still waiting
\* for its first step (its own ping tasks excepted: it runs ahead of them
\* while frames are buffered).
CanRun(s) == btasks = <<>> /\ \A t \in Topics \ {s} : pingTasks[t] = <<>>

\* Mutant: only connection errors are caught (except ConnectionClosed), a
\* decode or dispatch error leaves the generator.
HandlerNarrow(kind) == IF kind \in {"decode", "dispatch"} THEN "raised" ELSE "connecting"

\* Mutant: the handler logs a closed connection and raises it again.
HandlerReraise(kind) == IF kind = "closed" THEN "raised" ELSE "connecting"

\* Mutant: the handler sits inside the receive loop, which goes on reading
\* the same connection after a bad frame.
HandlerSkip(kind) == IF kind = "decode" THEN "recv" ELSE "connecting"

\* 'except Exception' around the whole body of the connection loop: every
\* fault is logged and the loop asks websockets.connect for the next
\* connection.
Handler(kind) == "connecting"

\* Mutant: the sessions share one connection object, which the fault of
\* either session closes.
FaultShared(s, kind, frame) ==
    /\ faults' = SetAt(faults, s, <<[conn |-> connection[s], kind |-> kind, frame |-> frame]>>)
    /\ alive' = [t \in Topics |-> FALSE]
    /\ inbox' = [t \in Topics |-> <<>>]
    /\ pc' = SetAt(pc, s, Handler(kind))

\* An exception (or the normal end of 'async for raw_message in connection')
\* leaves the body: the connect iterator closes the connection it had handed
\* out, and the variable 'connection' keeps naming that closed object until
\* the next one is bound.
Fault(s, kind, frame) ==
    /\ faults' = SetAt(faults, s, <<[conn |-> connection[s], kind |-> kind, frame |-> frame]>>)
    /\ alive' = SetAt(alive, s, FALSE)
    /\ inbox' = SetAt(inbox, s, <<>>)
    /\ pc' = SetAt(pc, s, Handler(kind))

\* async for connection in websockets.connect(...): an attempt either fails
\* (the iterator backs off and tries again) or binds a new connection object.
Connect(s) ==
    /\ mainpc = "stream"
    /\ pc[s] = "connecting"
    /\ NoReadyTasks
    /\ Budget
    /\ attempts' = SetAt(attempts, s, attempts[s] + 1)
    /\ \E ok \in BOOLEAN :
        IF ok
        THEN /\ connection' = SetAt(connection, s, attempts[s] + 1)
             /\ alive' = SetAt(alive, s, TRUE)
             /\ inbox' = SetAt(inbox, s, <<>>)
             /\ sent' = SetAt(sent, s, <<>>)
             /\ pc' = SetAt(pc, s, "auth")
        ELSE UNCHANGED <<connection, alive, inbox, sent, pc>>
    /\ UNCHANGED <<tag, lastRead, nframes, pingTasks, replies, faults, yielded, thrownAt>>
    /\ UNCHANGED <<mainVars, mergeVars>>
    /\ UNCHANGED sigVars

\* tag = secrets.token_urlsafe(8): a token no earlier call has returned.
FreshTag(s) == tag[s] + 1

\* Mutant: the auth frame is left out, the subscribe frame goes out in its place.
AuthFrameLeftOut(s, tok) == [conn |-> connection[s], event |-> "subscribe", id |-> tok]

AuthFrame(s, tok) == [conn |-> connection[s], event |-> "auth", id |-> tok]
SubscribeFrame(s, tok) == [conn |-> connection[s], event |-> "subscribe", id |-> tok]
PingFrame(s) == [conn |-> connection[s], event |-> "ping", id |-> 0]

\* timestamp, tag, then await connection.send(auth frame).
SendAuth(s) ==
    /\ mainpc = "stream"
    /\ pc[s] = "auth"
    /\ CanRun(s)
    /\ tag' = SetAt(tag, s, FreshTag(s))
    /\ IF alive[s]
       THEN /\ sent' = SetAt(sent, s, Append(sent[s], AuthFrame(s, FreshTag(s))))
            /\ pc' = SetAt(pc, s, "subscribe")
            /\ UNCHANGED <<alive, inbox, faults>>
       ELSE /\ Fault(s, "auth", 0)
            /\ UNCHANGED sent
    /\ UNCHANGED <<attempts, connection, lastRead, nframes, pingTasks, replies, yielded, thrownAt>>
    /\ UNCHANGED <<mainVars, mergeVars>>
    /\ UNCHANGED sigVars

\* await connection.send(subscribe frame), with the same local 'tag'.
SendSubscribe(s) ==
    /\ mainpc = "stream"
    /\ pc[s] = "subscribe"
    /\ CanRun(s)
    /\ IF alive[s]
       THEN /\ sent' = SetAt(sent, s, Append(sent[s], SubscribeFrame(s, tag[s])))
            /\ pc' = SetAt(pc, s, "recv")
            /\ UNCHANGED <<alive, inbox, faults>>
       ELSE /\ Fault(s, "subscribe", 0)
            /\ UNCHANGED sent
    /\ UNCHANGED <<attempts, connection, tag, lastRead, nframes, pingTasks, replies, yielded, thrownAt>>
    /\ UNCHANGED <<mainVars, mergeVars>>
    /\ UNCHANGED sigVars

\* Mutant: the 'continue' for frames without 'data' is missing.
DispatchNoFilter(k) ==
    IF ~IsJson(k) THEN "decode"
    ELSE IF ~IsObject(k) THEN "dispatch"
    ELSE "yield"

\* The body of 'async for raw_message in connection' for one frame:
\*   message = json.loads(raw_message)             -> "decode" fault
\*   message.get('event')  (not an object)         -> "dispatch" fault
\*   if 'data' not in message: continue            -> "continue"
\*   yield topic, message                          -> "yield"
Dispatch(k) ==
    IF ~IsJson(k) THEN "decode"
    ELSE IF ~IsObject(k) THEN "dispatch"
    ELSE IF ~HasData(k) THEN "continue"
    ELSE "yield"

\* Mutant: the ping test is an elif of the 'data' test, so a ping frame that
\* carries 'data' gets no reply.
SchedulesPingBare(k) == k = "ping"

\* if message.get('event') == 'ping': asyncio.ensure_future(ping())
SchedulesPing(k) == IsJson(k) /\ IsObject(k) /\ IsPing(k)

Item(s, f) == [topic |-> s, frame |-> f]

\* Mutant: the newest buffered frame is handed out first.
NextFrameNewest(buffer) == buffer[Len(buffer)]

\* The connection hands out buffered frames in the order they arrived.
NextFrame(buffer) == Head(buffer)

\* Mutant: the item is pushed to the consumer and the generator runs on.
AtYieldRunsOn(s) == "recv"

\* 'yield topic, message' suspends the generator until the merge asks it
\* for its next item.
AtYield(s) == "yielded"

\* One frame read from the connection and dispatched.
RecvFrame(s) ==
    /\ mainpc = "stream"
    /\ pc[s] = "recv"
    /\ CanRun(s)
    /\ inbox[s] # <<>>
    /\ \E k \in Kinds :
       LET f == [id |-> NextFrame(inbox[s]), conn |-> connection[s], kind |-> k]
           d == Dispatch(f.kind)
           rest == SelectSeq(inbox[s], LAMBDA n : n # f.id)
       IN /\ lastRead' = SetAt(lastRead, s, <<f>>)
          /\ pingTasks' = IF SchedulesPing(f.kind)
                          THEN SetAt(pingTasks, s, Append(pingTasks[s], [conn |-> connection[s], frame |-> f.id]))
                          ELSE pingTasks
          /\ CASE d \in {"decode", "dispatch"} ->
                    /\ Fault(s, d, f.id)
                    /\ UNCHANGED <<yielded, slot>>
               [] d = "continue" ->
                    /\ inbox' = SetAt(inbox, s, rest)
                    /\ UNCHANGED <<pc, alive, faults, yielded, slot>>
               [] d = "yield" ->
                    /\ inbox' = SetAt(inbox, s, rest)
                    /\ yielded' = SetAt(yielded, s, Append(yielded[s], Item(s, f)))
                    /\ slot' = SetAt(slot, s, <<Item(s, f)>>)
                    /\ pc' = SetAt(pc, s, AtYield(s))
                    /\ UNCHANGED <<alive, faults>>
    /\ UNCHANGED <<attempts, connection, tag, nframes, sent, replies, thrownAt, consumed>>
    /\ UNCHANGED mainVars
    /\ UNCHANGED sigVars

\* Nothing is buffered and the connection is closed: the iteration raises
\* ConnectionClosedError (or ends, after a normal closure: the for loop then
\* goes on to the next connection all the same).
RecvClosed(s) ==
    /\ mainpc = "stream"
    /\ pc[s] = "recv"
    /\ CanRun(s)
    /\ inbox[s] = <<>>
    /\ ~alive[s]
    /\ Fault(s, "closed", 0)
    /\ UNCHANGED <<attempts, connection, tag, lastRead, nframes, sent, pingTasks, replies, yielded, thrownAt>>
    /\ UNCHANGED <<mainVars, mergeVars>>
    /\ UNCHANGED sigVars

\* The target of the send in ping(): the closure reads the generator's
\* variable 'connection' when the task runs.
PingTarget(s, task) == connection[s]

\* Mutant: the reply is awaited in the receive loop, its failure is caught
\* by the session's handler.
PingFailReconnects(s) == "connecting"

\* A failed send raises inside the task only; the exception stays in the
\* Task object.  The generator of the session is not touched.
PingFailEffect(s) == pc[s]

\* ping(): await connection.send(json.dumps({'event': 'ping'}))
PingRun(s) ==
    /\ pingTasks[s] # <<>>
    /\ btasks = <<>>
    /\ LET task == Head(pingTasks[s])
           target == PingTarget(s, task)
           ok == alive[s] /\ target = connection[s]
       IN /\ replies' = SetAt(replies, s,
                 <<[origin |-> task.conn, frame |-> task.frame, conn |-> target,
                    ok |-> ok, y |-> Len(yielded[s])]>>)
          /\ IF ok
             THEN /\ sent' = SetAt(sent, s, Append(sent[s], PingFrame(s)))
                  /\ UNCHANGED pc
             ELSE /\ pc' = SetAt(pc, s, PingFailEffect(s))
                  /\ UNCHANGED sent
    /\ pingTasks' = SetAt(pingTasks, s, Tail(pingTasks[s]))
    /\ UNCHANGED <<attempts, connection, alive, tag, inbox, lastRead, nframes, faults, yielded, thrownAt>>
    /\ UNCHANGED <<mainVars, mergeVars>>
    /\ UNCHANGED sigVars

\* ---- the exchange and the network ------------------------------------------
Connected(s) == alive[s] /\ pc[s] \in {"auth", "subscribe", "recv", "yielded"}

\* The exchange puts a frame on the connection; frames are numbered in the
\* order they arrive.  A frame is only read once the session iterates the
\* connection, so one that arrives while auth or subscribe is being sent, or
\* while the generator is suspended at its yield, is modelled as arriving
\* when the session is back at the iteration.  What the frame holds is drawn
\* where it is read (RecvFrame).
NetDeliver(s) ==
    /\ alive[s]
    /\ pc[s] = "recv"
    /\ Budget
    /\ inbox' = SetAt(inbox, s, Append(inbox[s], nframes[s] + 1))
    /\ nframes' = SetAt(nframes, s, nframes[s] + 1)
    /\ UNCHANGED <<pc, attempts, connection, alive, tag, lastRead, sent, pingTasks, replies, faults, yielded, thrownAt>>
    /\ UNCHANGED <<mainVars, mergeVars>>
    /\ UNCHANGED sigVars

NetDrop(s) ==
    /\ Connected(s)
    /\ alive' = SetAt(alive, s, FALSE)
    /\ UNCHANGED <<pc, attempts, connection, tag, inbox, lastRead, nframes, sent, pingTasks, replies, faults, yielded, thrownAt>>
    /\ UNCHANGED <<mainVars, mergeVars>>
    /\ UNCHANGED sigVars

\* ---- aiostream.stream.merge and the body of main's async for -------------
\* The merge holds one finished anext() per source; it hands one of them to
\* the consumer and only then asks that source for its next item.
MergePick == {s \in Topics : slot[s] # <<>>}

\* message['data']['status'] of an item, as main reads it: only the branch
\* for execution reports looks at it.
Statuses(item) == IF item.topic = "executionreport" THEN {"FILLED", "NEW"} ELSE {"NEW"}

\* case 'executionreport': if message['data']['status'] == 'FILLED':
\*     asyncio.ensure_future(broadcast(...))
Notifies(item, status) == item.topic = "executionreport" /\ status = "FILLED"

Consume(s) ==
    /\ mainpc = "stream"
    /\ NoReadyTasks
    /\ s \in MergePick
    /\ LET item == slot[s][1]
       IN /\ consumed' = SetAt(consumed, s, Append(consumed[s], item))
          /\ \E status \in Statuses(item) :
                btasks' = IF Notifies(item, status)
                          THEN Append(btasks, [kind |-> "fill", frame |-> item.frame.id])
                          ELSE btasks
    /\ slot' = SetAt(slot, s, <<>>)
    /\ pc' = SetAt(pc, s, "recv")
    /\ UNCHANGED <<mainpc, tokens, positions, balances, holdings, out>>
    /\ UNCHANGED <<attempts, connection, alive, tag, inbox, lastRead, nframes, sent,
                   pingTasks, replies, faults, yielded, thrownAt>>
    /\ UNCHANGED sigVars

\* ---- cancellation ------------------------------------------------------------
\* Mutant: a bare 'except:' (or 'except BaseException'), which also catches
\* what cancellation throws.
CaughtAll(exc) == TRUE

\* 'except Exception' catches what derives from Exception; CancelledError and
\* GeneratorExit derive from BaseException and pass through the handler.
Caught(exc) == exc \notin {"CancelledError", "GeneratorExit"}

\* What cancellation throws into the generator: CancelledError at the await
\* it is suspended in, GeneratorExit (aclose) when it is suspended at its
\* yield.
Thrown(s) == IF pc[s] = "yielded" THEN "GeneratorExit" ELSE "CancelledError"

OnCancel(s) == IF Caught(Thrown(s)) THEN Handler("cancel") ELSE "cancelled"

\* asyncio.run cancels main at the await it is suspended in (a snapshot call
\* or the merged stream); leaving 'async with ... as streamer' closes the
\* merge, which cancels the pending anext() of each source it has started and
\* closes the source; the connect iterator of a generator that is left
\* closes the connection it had handed out.  Tasks that were ready before
\* main is resumed take their first step first.
Cancel ==
    /\ mainpc \in {"info", "gather", "stream"}
    /\ NoReadyTasks
    /\ mainpc' = "cancelled"
    /\ thrownAt' = [s \in Topics |-> IF pc[s] = "idle" THEN "none" ELSE pc[s]]
    /\ pc' = [s \in Topics |-> IF pc[s] = "idle" THEN "idle" ELSE OnCancel(s)]
    /\ alive' = [s \in Topics |-> FALSE]
    /\ inbox' = [s \in Topics |-> <<>>]
    /\ UNCHANGED <<tokens, positions, balances, holdings, btasks, out>>
    /\ UNCHANGED <<attempts, connection, tag, lastRead, nframes, sent, pingTasks, replies,
                   faults, yielded>>
    /\ UNCHANGED mergeVars
    /\ UNCHANGED sigVars

Next ==
    \/ InfoSend
    \/ InfoDone
    \/ PositionsSend
    \/ HoldingSend
    \/ PositionsDone
    \/ HoldingDone
    \/ Render
    \/ BroadcastRun
    \/ \E s \in Topics : Connect(s)
    \/ \E s \in Topics : SendAuth(s)
    \/ \E s \in Topics : SendSubscribe(s)
    \/ \E s \in Topics : RecvFrame(s)
    \/ \E s \in Topics : RecvClosed(s)
    \/ \E s \in Topics : PingRun(s)
    \/ \E s \in Topics : NetDeliver(s)
    \/ \E s \in Topics : NetDrop(s)
    \/ \E s \in Topics : Consume(s)
    \/ Cancel

Spec == Init /\ [][Next]_vars

\* ---- signature called on its own ---------------------------------------------
\* Keyword arguments as a caller can give them: at most MaxParams items with
\* distinct names, in any order.
Names(items) == {items[i][1] : i \in 1..Len(items)}

KwargsOf(n) ==
    {q \in [1..n -> Keys \X Values] : Cardinality(Names(q)) = n}

SigInit ==
    /\ Started
    /\ sigpc = "called"
    /\ sigTimestamp \in Timestamps
    /\ sigSecret \in Secrets
    /\ sigKwargs \in UNION {KwargsOf(n) : n \in 0..MaxParams}
    /\ sigResult = <<>>

SigReturn ==
    /\ sigpc = "called"
    /\ sigResult' = <<signature(sigTimestamp, sigSecret, sigKwargs)>>
    /\ sigpc' = "returned"
    /\ UNCHANGED <<sigTimestamp, sigSecret, sigKwargs>>
    /\ UNCHANGED <<mainVars, sessVars, mergeVars>>

SigNext == SigReturn

SigSpec == SigInit /\ [][SigNext]_vars

TypeOK ==
    /\ mainpc \in {"info", "gather", "render", "stream", "crashed", "cancelled"}
    /\ \A s \in Topics :
          pc[s] \in {"idle", "connecting", "auth", "subscribe", "recv", "yielded", "cancelled"}

\* Scheduling of the event loop: a ready task or coroutine is run (main's
\* loop body among them, once the merge has an item for it), and an attempt
\* to connect comes to an end (it succeeds or it fails).
FairSpec ==
    /\ Spec
    /\ WF_vars(BroadcastRun)
    /\ \A s \in Topics : WF_vars(PingRun(s))
    /\ \A s \in Topics : WF_vars(Connect(s))
    /\ \A s \in Topics : WF_vars(Consume(s))

\* ---- properties ------------------------------------------------------------
InUse(s) == pc[s] \in {"auth", "subscribe", "recv", "yielded"}

FaultStep(s) == faults'[s] # faults[s]

\* C1: every fault raised while a connection is in use (auth send, subscribe
\* send, receive, decode or dispatch of a frame) is caught inside the session:
\* the generator goes back to the connect loop, main keeps consuming, and the
\* only way out of the connect loop (cancellation of the process apart) is a
\* connection object never used before.
C1_FaultCaughtThenNewConnection ==
    [][\A s \in Topics :
        /\ FaultStep(s) =>
            /\ InUse(s)
            /\ pc'[s] = "connecting"
            /\ ~alive'[s]
            /\ mainpc' = "stream"
            /\ slot' = slot
            /\ consumed' = consumed
        /\ (pc[s] = "connecting" /\ pc'[s] # "connecting" /\ mainpc' = "stream") =>
            /\ pc'[s] = "auth"
            /\ connection'[s] > connection[s]
            /\ alive'[s]
            /\ sent'[s] = <<>>
            /\ inbox'[s] = <<>>
       ]_vars

\* A dispatch error on one connection, and the session is reading the next.
C1_Witness ==
    \E s \in Topics :
        /\ faults[s] # <<>>
        /\ faults[s][1].kind = "dispatch"
        /\ pc[s] = "recv"
        /\ alive[s]
        /\ connection[s] > faults[s][1].conn

Items(seq) == {seq[i] : i \in 1..Len(seq)}

\* C2: after a frame that is not valid JSON, the process is still running
\* (until it is cancelled from outside), the session has left that connection for good (nothing read from it again,
\* neither the bad frame nor a later frame of it is yielded), and once it
\* reads again it does so on a new connection on which auth and subscribe
\* have been sent.
C2_BadFrameReconnects ==
    \A s \in Topics :
        (lastRead[s] # <<>> /\ lastRead[s][1].kind = "bad") =>
            LET b == lastRead[s][1]
            IN /\ mainpc \in {"stream", "cancelled"}
               /\ pc[s] \in {"connecting", "auth", "subscribe", "recv", "cancelled"}
               /\ pc[s] \in {"connecting", "cancelled"} => ~alive[s]
               /\ pc[s] \in {"auth", "subscribe", "recv"} => connection[s] > b.conn
               /\ \A it \in Items(yielded[s]) :
                     it.frame.conn = b.conn => it.frame.id < b.id
               /\ pc[s] = "recv" =>
                     /\ Len(sent[s]) >= 2
                     /\ sent[s][1] = AuthFrame(s, tag[s])
                     /\ sent[s][2] = SubscribeFrame(s, tag[s])

\* A bad frame was read while a later frame of the same connection was
\* buffered; the session now reads on the next connection, the later frame
\* is gone.
C2_Witness ==
    \E s \in Topics :
        /\ lastRead[s] # <<>>
        /\ lastRead[s][1].kind = "bad"
        /\ pc[s] = "recv"
        /\ connection[s] > lastRead[s][1].conn
        /\ nframes[s] > lastRead[s][1].id
        /\ inbox[s] = <<>>

\* C3: every item a session yields (and so every item the merge holds or
\* has handed over) carries the session's own topic and a decoded frame that
\* is a JSON object with a 'data' field; a frame without 'data' is not among
\* them.
C3_YieldsOnlyDataFrames ==
    \A s \in Topics :
        \A it \in Items(yielded[s]) \cup Items(slot[s]) \cup Items(consumed[s]) :
            /\ it.topic = s
            /\ IsJson(it.frame.kind)
            /\ IsObject(it.frame.kind)
            /\ HasData(it.frame.kind)

\* An item was yielded, then an ack was read on a later connection and
\* dropped.
C3_Witness ==
    \E s \in Topics :
        /\ yielded[s] # <<>>
        /\ lastRead[s] # <<>>
        /\ lastRead[s][1].kind = "ack"
        /\ lastRead[s][1].conn > yielded[s][Len(yielded[s])].frame.conn
        /\ pc[s] = "recv"

\* C4: a frame whose event is 'ping' is never yielded.
C4_PingNeverYielded ==
    \A s \in Topics :
        \A it \in Items(yielded[s]) : ~IsPing(it.frame.kind)

PingsIn(seq) == Cardinality({i \in 1..Len(seq) : seq[i].event = "ping"})

\* C5: reading a frame schedules exactly one ping() task if its event is
\* 'ping' and none otherwise; a task that runs is removed and, the connection
\* being open, writes exactly one {"event":"ping"} frame, and ping frames are
\* written by these tasks only; under a fair scheduler every scheduled task
\* runs.
C5_PingRepliedOnce ==
    /\ [][\A s \in Topics :
            /\ lastRead'[s] # lastRead[s] =>
                  LET f == lastRead'[s][1]
                  IN IF IsPing(f.kind)
                     THEN pingTasks'[s] = Append(pingTasks[s], [conn |-> f.conn, frame |-> f.id])
                     ELSE pingTasks'[s] = pingTasks[s]
            /\ (lastRead'[s] = lastRead[s] /\ pingTasks'[s] # pingTasks[s]) =>
                  /\ pingTasks[s] # <<>>
                  /\ pingTasks'[s] = Tail(pingTasks[s])
                  /\ replies'[s] # <<>>
                  /\ replies'[s][1].frame = Head(pingTasks[s]).frame
                  /\ replies'[s][1].ok = alive[s]
                  /\ IF alive[s]
                     THEN sent'[s] = Append(sent[s], PingFrame(s))
                     ELSE sent'[s] = sent[s]
            /\ (pingTasks'[s] = pingTasks[s] /\ sent'[s] # <<>>) =>
                  PingsIn(sent'[s]) = PingsIn(sent[s])
         ]_vars
    /\ \A s \in Topics : (pingTasks[s] # <<>>) ~> (pingTasks[s] = <<>>)

\* Two pings were read on one open connection and both replies are written.
C5_Witness ==
    \E s \in Topics :
        /\ PingsIn(sent[s]) = 2
        /\ pingTasks[s] = <<>>
        /\ alive[s]
        /\ replies[s] # <<>>
        /\ replies[s][1].ok

\* C6: a ping() task whose send fails changes nothing of the session: the
\* generator stays where it is on the same connection, no fault is recorded,
\* nothing is sent, and main is not touched.
C6_PingFailureContained ==
    [][\A s \in Topics :
        (replies'[s] # replies[s] /\ ~replies'[s][1].ok) =>
            /\ pc' = pc
            /\ connection' = connection
            /\ alive' = alive
            /\ inbox' = inbox
            /\ faults' = faults
            /\ sent' = sent
            /\ yielded' = yielded
            /\ slot' = slot
            /\ consumed' = consumed
            /\ mainpc' = mainpc
       ]_vars

\* A reply failed, and after that the session yielded a data frame of the
\* connection the ping came from.
C6_Witness ==
    \E s \in Topics :
        /\ replies[s] # <<>>
        /\ ~replies[s][1].ok
        /\ Len(yielded[s]) > replies[s][1].y
        /\ yielded[s][Len(yielded[s])].frame.conn = replies[s][1].origin
        /\ yielded[s][Len(yielded[s])].frame.id > replies[s][1].frame

\* C7: for each session, the items handed to the consumer followed by the
\* item the merge holds are exactly the items the session has yielded, in
\* order: none is lost, none is handed over twice.
C7_MergeExactlyOnce ==
    \A s \in Topics :
        /\ Len(slot[s]) <= 1
        /\ yielded[s] = consumed[s] \o slot[s]
        /\ \A i, j \in 1..Len(consumed[s]) :
              i # j => consumed[s][i].frame.id # consumed[s][j].frame.id

\* Both sessions have yielded an item and both items have been handed to
\* the consumer.
C7_Witness ==
    \A s \in Topics :
        /\ consumed[s] # <<>>
        /\ consumed[s] = yielded[s]

\* C8: the consumer gets the events of a topic in the order their frames
\* arrived: frame numbers increase, and no event of a connection comes after
\* an event of the connection that replaced it.
C8_TopicOrderPreserved ==
    \A s \in Topics :
        \A i, j \in 1..Len(consumed[s]) :
            i < j =>
                /\ consumed[s][i].frame.id < consumed[s][j].frame.id
                /\ consumed[s][i].frame.conn <= consumed[s][j].frame.conn

\* Two events of one topic were consumed, the second from a later connection.
C8_Witness ==
    \E s \in Topics :
        /\ Len(consumed[s]) = 2
        /\ consumed[s][1].frame.conn < consumed[s][2].frame.conn

\* C9: while main consumes the stream a session is always in its connect
\* loop or on a connection (it has neither ended nor raised); short of the
\* cancellation of the process, it leaves the connect loop only by an
\* attempt that gave it a connection; and under a
\* fair scheduler a session does not stay in the connect loop without making
\* a further attempt, as long as the model's budget of events lasts.
C9_SessionNeverEnds ==
    /\ [](mainpc = "stream" =>
            \A s \in Topics : pc[s] \in {"connecting", "auth", "subscribe", "recv", "yielded"})
    /\ [][\A s \in Topics :
            (pc[s] = "connecting" /\ pc'[s] # "connecting" /\ mainpc' = "stream") =>
                /\ pc'[s] = "auth"
                /\ attempts'[s] = attempts[s] + 1
         ]_vars
    /\ \A s \in Topics :
          (mainpc = "stream" /\ pc[s] = "connecting" /\ Budget)
              ~> (pc[s] # "connecting" \/ ~Budget)

\* A connection was lost, the next attempt failed, and the attempt after it
\* gave the session a connection.
C9_Witness ==
    \E s \in Topics :
        /\ faults[s] # <<>>
        /\ faults[s][1].conn = 1
        /\ attempts[s] = 3
        /\ connection[s] = 3
        /\ alive[s]

\* The request failed and gave its caller None.
Absent(r) == r = "none"

\* C10: a failed snapshot call never terminates main: when a call has come
\* back with an absent result (and no call has raised), main is not
\* terminated, it still gets to consume the merged stream.
C10_SnapshotFailureNotFatal ==
    ( /\ Absent(tokens) \/ Absent(positions) \/ Absent(balances)
      /\ "raise" \notin {tokens, positions, balances} )
        => mainpc # "crashed"

\* C11: a REST call never raises out to its caller: whatever the response
\* (non-2xx, body that is not JSON, transport failure), what main gets from
\* each of the three calls is the content or an absent result.
C11_RequestNeverRaises ==
    \A r \in {tokens, positions, balances} : r # "raise"

\* C12: cancellation thrown into a session that waits to connect or to
\* receive (or is anywhere else in its body) is not caught by the session's
\* handler: the session is stopped with its connection closed, and from then
\* on it makes no connection attempt, binds no connection, sends nothing and
\* yields nothing.
C12_CancellationStopsSession ==
    /\ [](mainpc = "cancelled" =>
            \A s \in Topics :
                /\ pc[s] \in {"idle", "cancelled"}
                /\ ~alive[s]
                /\ (thrownAt[s] # "none") = (pc[s] = "cancelled"))
    /\ [][mainpc = "cancelled" =>
            /\ attempts' = attempts
            /\ connection' = connection
            /\ sent' = sent
            /\ yielded' = yielded
            /\ consumed' = consumed
         ]_vars

\* Cancellation arrived while one session waited to connect after a failed
\* attempt and the other, having yielded an item, waited to receive.
C12_Witness ==
    /\ mainpc = "cancelled"
    /\ \E s, t \in Topics :
        /\ thrownAt[s] = "connecting"
        /\ attempts[s] > 0
        /\ thrownAt[t] = "recv"
        /\ consumed[t] # <<>>
        /\ pc[s] = "cancelled"
        /\ pc[t] = "cancelled"

Perms(items) ==
    {q \in [1..Len(items) -> {items[i] : i \in 1..Len(items)}] :
        {q[i] : i \in 1..Len(q)} = {items[i] : i \in 1..Len(items)}}

Ascending(items) ==
    \A i \in 1..(Len(items) - 1) : KeyLess(items[i][1], items[i + 1][1])

RECURSIVE Joined(_)
Joined(items) ==
    IF items = <<>> THEN <<>>
    ELSE IF Len(items) = 1 THEN items[1][1] \o <<"=">> \o Str(items[1][2])
    ELSE items[1][1] \o <<"=">> \o Str(items[1][2]) \o <<"&">> \o Joined(Tail(items))

\* C13: signature signs, with the secret it was given, the message made of
\* the items of P in ascending order of their keys, written k=v and joined
\* by '&', then '|' and the timestamp; it returns the same for P given in
\* any other order; for empty P the message is '|' and the timestamp.
C13_SignatureCanonical ==
    sigpc = "returned" =>
        LET r == sigResult[1]
        IN /\ r.key = sigSecret
           /\ \E q \in Perms(sigKwargs) :
                 /\ Ascending(q)
                 /\ r.msg = Joined(q) \o <<"|">> \o sigTimestamp
           /\ \A q \in Perms(sigKwargs) :
                 signature(sigTimestamp, sigSecret, q) = r
           /\ sigKwargs = <<>> => r.msg = <<"|">> \o sigTimestamp

\* Two parameters were given with the greater key first, one value of two
\* digits.
C13_Witness ==
    /\ sigpc = "returned"
    /\ Len(sigKwargs) = 2
    /\ KeyLess(sigKwargs[2][1], sigKwargs[1][1])
    /\ sigKwargs[1][2] = 12
    /\ sigResult[1].msg[1] = "a"

EventsIn(seq, ev) == Cardinality({i \in 1..Len(seq) : seq[i].event = ev})

Handshaken(s) ==
    /\ Len(sent[s]) >= 2
    /\ sent[s][1] = [conn |-> connection[s], event |-> "auth", id |-> sent[s][1].id]
    /\ sent[s][2] = [conn |-> connection[s], event |-> "subscribe", id |-> sent[s][2].id]
    /\ EventsIn(sent[s], "auth") = 1
    /\ EventsIn(sent[s], "subscribe") = 1

\* C14: on every connection a session obtains, nothing is sent before the
\* auth frame, the subscribe frame for the session's topic is the next frame
\* sent, each of them is sent once, both are out before the first frame of
\* that connection is read (so no ack is waited for), and a frame is read or
\* yielded only from a connection on which both have been sent.
C14_AuthThenSubscribe ==
    /\ [](\A s \in Topics :
            /\ pc[s] = "auth" => sent[s] = <<>>
            /\ pc[s] = "subscribe" =>
                  sent[s] = <<[conn |-> connection[s], event |-> "auth", id |-> tag[s]]>>
            /\ pc[s] \in {"recv", "yielded"} => Handshaken(s))
    /\ [][\A s \in Topics :
            /\ (pc[s] = "subscribe" /\ pc'[s] = "recv") =>
                  /\ lastRead'[s] = lastRead[s]
                  /\ lastRead[s] # <<>> => lastRead[s][1].conn < connection[s]
                  /\ inbox'[s] = <<>>
            /\ lastRead'[s] # lastRead[s] =>
                  /\ Handshaken(s)
                  /\ lastRead'[s][1].conn = connection[s]
            /\ yielded'[s] # yielded[s] =>
                  /\ Handshaken(s)
                  /\ yielded'[s][Len(yielded'[s])].frame.conn = connection[s]
         ]_vars

\* On its second connection the session has sent auth and subscribe and has
\* yielded a data frame of that connection.
C14_Witness ==
    \E s \in Topics :
        /\ connection[s] = 2
        /\ pc[s] = "yielded"
        /\ Len(sent[s]) = 2
        /\ sent[s][1].event = "auth"
        /\ sent[s][2].event = "subscribe"
        /\ yielded[s][Len(yielded[s])].frame.conn = 2

\* The session makes a step of failing or reconnecting: a fault on its
\* connection, the loss of the connection, or a connection attempt.
Troubled(s) ==
    \/ FaultStep(s)
    \/ attempts'[s] # attempts[s]
    \/ (alive[s] /\ ~alive'[s] /\ mainpc' = mainpc)

\* C15: a step by which one session fails, loses its connection or tries to
\* connect changes nothing of the other session (its connection stays bound
\* and open, its buffered frames, its position and its items stay), and an
\* item the merge holds for a session is handed to the consumer whatever the
\* other session is doing, however long it keeps failing.
C15_SessionsIndependent ==
    /\ [][\A s \in Topics : \A t \in Topics \ {s} :
            Troubled(s) =>
                /\ connection'[t] = connection[t]
                /\ alive'[t] = alive[t]
                /\ inbox'[t] = inbox[t]
                /\ pc'[t] = pc[t]
                /\ sent'[t] = sent[t]
                /\ yielded'[t] = yielded[t]
                /\ slot'[t] = slot[t]
                /\ consumed'[t] = consumed[t]
         ]_vars
    /\ \A t \in Topics :
          (mainpc = "stream" /\ slot[t] # <<>>) ~> (slot[t] = <<>> \/ mainpc # "stream")

\* One session lost its connection and failed to get the next one, while the
\* other, still connected, has an item waiting in the merge.
C15_Witness ==
    \E s \in Topics : \E t \in Topics \ {s} :
        /\ faults[s] # <<>>
        /\ pc[s] = "connecting"
        /\ attempts[s] >= 2
        /\ alive[t]
        /\ slot[t] # <<>>
        /\ mainpc = "stream"

\* C16: the three snapshot calls are issued concurrently: while one of them
\* is in flight, a call whose request has not been sent yet can be sent at
\* once, it does not wait for the one in flight to complete.
C16_SnapshotCallsConcurrent ==
    (mainpc \in {"info", "gather"} /\ "inflight" \in {tokens, positions, balances}) =>
        /\ tokens = "pending" => ENABLED InfoSend
        /\ positions = "pending" => ENABLED PositionsSend
        /\ balances = "pending" => ENABLED HoldingSend

\* C17: the reply to a ping does not hold up the receive loop: reading a
\* ping frame sends nothing and leaves the session reading (or at its yield,
\* when the frame carries data), and while a reply is still waiting to be
\* sent the session can read the next buffered frame of the connection.
C17_PingReplyNonBlocking ==
    /\ [](\A s \in Topics :
            ( /\ mainpc = "stream"
              /\ pingTasks[s] # <<>>
              /\ pc[s] = "recv"
              /\ inbox[s] # <<>>
              /\ btasks = <<>>
              /\ \A t \in Topics \ {s} : pingTasks[t] = <<>> )
                => ENABLED RecvFrame(s))
    /\ [][\A s \in Topics :
            (lastRead'[s] # lastRead[s] /\ IsPing(lastRead'[s][1].kind)) =>
                /\ sent'[s] = sent[s]
                /\ replies'[s] = replies[s]
                /\ pc'[s] = (IF HasData(lastRead'[s][1].kind) THEN "yielded" ELSE "recv")
         ]_vars

\* A ping was read, its reply has not been sent yet, and the session has
\* gone on to read and yield a later data frame of the same connection.
C17_Witness ==
    \E s \in Topics :
        /\ pingTasks[s] # <<>>
        /\ pc[s] = "yielded"
        /\ LET it == yielded[s][Len(yielded[s])]
           IN /\ it.frame.conn = Head(pingTasks[s]).conn
              /\ it.frame.id > Head(pingTasks[s]).frame
              /\ it.frame.kind = "data"

\* C18: a reply goes to the connection its ping was read on: the task that
\* runs targets that connection, writes its frame there when it is open and
\* writes nothing otherwise; a task still waiting belongs to the connection
\* bound to the session, so none is carried over to a replacement
\* connection, and every frame written is on the connection it was meant for.
C18_ReplyOnOriginConnection ==
    /\ [](\A s \in Topics :
            /\ \A i \in 1..Len(pingTasks[s]) : pingTasks[s][i].conn = connection[s]
            /\ \A i \in 1..Len(sent[s]) : sent[s][i].conn = connection[s])
    /\ [][\A s \in Topics :
            replies'[s] # replies[s] =>
                LET r == replies'[s][1]
                IN /\ r.conn = r.origin
                   /\ connection'[s] = r.origin
                   /\ IF r.ok
                      THEN sent'[s] = Append(sent[s], [conn |-> r.origin, event |-> "ping", id |-> 0])
                      ELSE sent'[s] = sent[s]
         ]_vars

\* A ping was read, a later frame of the connection raised a fault before
\* the reply was sent, the reply then failed on the closed connection, and
\* the session is on a replacement connection that has got no ping frame.
C18_Witness ==
    \E s \in Topics :
        /\ replies[s] # <<>>
        /\ ~replies[s][1].ok
        /\ faults[s] # <<>>
        /\ faults[s][1].conn = replies[s][1].origin
        /\ faults[s][1].frame > replies[s][1].frame
        /\ connection[s] > replies[s][1].origin
        /\ alive[s]
        /\ PingsIn(sent[s]) = 0

Returned(r) == r \in {"content", "none"}

\* C19: main enters the merged stream only when the three snapshot calls
\* have returned; before that no session has left its initial state (no
\* connection attempt, no item yielded or consumed) and no notification is
\* scheduled; the snapshot notification is the first one scheduled and the
\* first one printed, every notification of an execution report comes after.
C19_SnapshotBeforeStream ==
    /\ [][(mainpc # "stream" /\ mainpc' = "stream") =>
            /\ Returned(tokens) /\ Returned(positions) /\ Returned(balances)
            /\ btasks = <<>> /\ out = <<>>
            /\ btasks' = <<[kind |-> "snapshot", frame |-> 0]>>
         ]_vars
    /\ [](mainpc \in {"info", "gather", "render", "crashed"} =>
            /\ \A s \in Topics :
                  /\ pc[s] = "idle"
                  /\ attempts[s] = 0
                  /\ connection[s] = 0
                  /\ yielded[s] = <<>>
                  /\ consumed[s] = <<>>
            /\ btasks = <<>>
            /\ out = <<>>)
    /\ [](\A s \in Topics : attempts[s] > 0 =>
            tokens = "used" /\ positions = "used" /\ balances = "used")
    /\ [](LET all == out \o btasks
          IN \A i \in 1..Len(all) :
                /\ (i = 1) = (all[i].kind = "snapshot")
                /\ all[i].kind = "fill" =>
                      \E j \in 1..Len(consumed["executionreport"]) :
                          consumed["executionreport"][j].frame.id = all[i].frame)

\* The snapshot and then the notification of a filled execution report have
\* been printed.
C19_Witness ==
    /\ Len(out) = 2
    /\ out[1].kind = "snapshot"
    /\ out[2].kind = "fill"

\* C20: every auth frame and every subscribe frame carries a token of its
\* own: on a connection the token of the subscribe frame differs from the
\* token of the auth frame.
C20_TokensFresh ==
    \A s \in Topics :
        \A i, j \in 1..Len(sent[s]) :
            (i # j /\ sent[s][i].event \in {"auth", "subscribe"}
                   /\ sent[s][j].event \in {"auth", "subscribe"})
                => sent[s][i].id # sent[s][j].id

====
